---- MODULE Spec2Model ----
(***************************************************************************)
(* State-machine model of the centre-point marking tool (src/main.py):     *)
(* the AnnotationTool window, its ZoomableLabel and the deferred           *)
(* QTimer.singleShot callbacks.  One action per Qt event handler; every    *)
(* handler runs to completion on the single GUI thread.                    *)
(*                                                                         *)
(* Conventions                                                             *)
(*   - Python None is the empty tuple <<>>; a point (x, y) is <<x, y>>.    *)
(*   - current_index is 0-based as in the code; image_paths[i] of the code *)
(*     is image_paths[i + 1] here.                                         *)
(*   - a path is <<directory, basename>>.                                  *)
(*   - the dict self.annotations keeps insertion order, so it is a         *)
(*     sequence of [filename, centroids] entries in creation order.        *)
(*   - QRectF offsets may be half-integers: image_rect stores them doubled *)
(*     (x2 = 2 * offset_x, y2 = 2 * offset_y).                             *)
(*   - dialog and written are the outputs of the last handler: the message *)
(*     box it showed ("" for none) and the file it wrote (<<>> for none,   *)
(*     <<rows>> for a file holding rows).                                  *)
(*   - finished is a history variable: no handler reads it.                *)
(***************************************************************************)
EXTENDS Integers, Sequences, FiniteSets, TLC

VARIABLES
    image_dir,        \* self.image_dir
    image_paths,      \* self.image_paths
    list_model,       \* self.list_model.image_files (what the list view shows)
    current_index,    \* self.current_index
    original_image,   \* self.original_image: the path decoded, or <<>>
    original_width,   \* self.original_width
    original_height,  \* self.original_height
    annotations,      \* self.annotations
    current_polygon,  \* self.current_polygon
    current_centroid, \* self.current_centroid
    marked_count,     \* self.marked_count
    marked_label,     \* text of self.marked_label as <<marked, total>>
    zoom,             \* self.image_label._zoom
    zoom_slider,      \* self.zoom_slider.value()
    image_rect,       \* self.image_label._image_rect
    pixmap,           \* self.image_label.pixmap(): "none", "null" or "image"
    timers,           \* number of pending QTimer.singleShot(1000, next_image)
    crashed,          \* an exception escaped a handler
    dialog,           \* message box shown by the last handler
    written,          \* file written by the last handler
    finished,         \* history: the finishes recorded since the store was
                      \* last created, oldest first, as <<filename, centroid>>
    label_size        \* self.image_label.size()

vars == <<image_dir, image_paths, list_model, current_index, original_image,
          original_width, original_height, annotations, current_polygon,
          current_centroid, marked_count, marked_label, zoom, zoom_slider,
          image_rect, pixmap, timers, crashed, dialog, written,
          finished, label_size>>

(***************************************************************************)
(* Program constants                                                       *)
(***************************************************************************)
MinZoom == 10
MaxZoom == 500
ZoomStep == 20
DefaultZoom == 100
MinVertices == 3

(***************************************************************************)
(* Bounds of the model                                                     *)
(***************************************************************************)
MaxVertices == 3     \* pending polygons of up to this many vertices
MaxCentroids == 1    \* recorded centroids, over all entries
MaxTimers == 1       \* auto-advance timers pending at once
MaxWheelSteps == 0   \* zoom steps explored around the slider positions
MaxStoreCentroids == 3  \* recorded centroids, in the store specification
MaxCorners == 4      \* vertices of the polygons, in the centroid specification
MaxSide == 6         \* width and height of the images, in the mapping
                     \* specification

(***************************************************************************)
(* Environment: the viewport, the file system, the gestures                *)
(***************************************************************************)
\* self.image_label.size() of the window as it opens; it is not resized.
LabelSize == [w |-> 6, h |-> 6]

None == <<>>

\* Directories the file dialog can return and what os.listdir + the
\* extension filter give for each.
Dirs == {"d0", "d1", "d2"}

ListDir(d) ==
    CASE d = "d1" -> << <<d, "a.png">>, <<d, "x.png">>, <<d, "b.png">> >>
      [] d = "d2" -> << <<d, "x.png">> >>
      [] OTHER    -> << >>

Basename(path) == path[2]

\* cv2.imread: x.png cannot be decoded (returns None); the others decode
\* to 3 x 2 pixels (img.shape[:2] = (2, 3)).
Decodable(path) == Basename(path) # "x.png"
ImageShape(path) == [w |-> 3, h |-> 2]

\* Positions of left clicks, in label coordinates.  At zoom 100 the image
\* is drawn 6 x 4 at offset (0, 1): <<0, 0>> lies above it, <<0, 1>> and
\* <<5, 1>> on its top row, <<5, 5>> on its bottom edge.
ClickPoints == { <<0, 0>>, <<0, 1>>, <<5, 1>>, <<5, 5>> }

\* Positions the user drags the slider to.
SliderValues == {MinZoom}

\* Every position of the slider: setRange(10, 500).
SliderRange == MinZoom..MaxZoom

\* Rows a failing export has written when the error is raised (-1: open()
\* itself failed, there is no file).
PartialWrites == {-1, 1}

(***************************************************************************)
(* Arithmetic helpers                                                      *)
(***************************************************************************)
Min(a, b) == IF a <= b THEN a ELSE b
Max(a, b) == IF a >= b THEN a ELSE b
Abs(a) == IF a >= 0 THEN a ELSE -a

\* Python int() of a quotient: truncation toward zero (b # 0).
TruncDiv(a, b) ==
    IF (a >= 0) = (b > 0) THEN Abs(a) \div Abs(b) ELSE -(Abs(a) \div Abs(b))

RECURSIVE SumTo(_, _)
SumTo(f, n) == IF n = 0 THEN 0 ELSE f[n] + SumTo(f, n - 1)

(***************************************************************************)
(* ZoomableLabel                                                           *)
(***************************************************************************)
\* set_zoom: the stored value is the request clamped to [10, 500].
SetZoom(value) == Max(MinZoom, Min(MaxZoom, value))

\* QRectF.contains: true inside or on any edge of a non-empty rectangle
\* (Qt includes the right and bottom edges).  pos2 is the position doubled,
\* like the offsets of the rectangle.
RectContains2(rect, pos2) ==
    /\ rect.w # 0
    /\ rect.h # 0
    /\ pos2[1] >= rect.x2
    /\ pos2[1] <= rect.x2 + 2 * rect.w
    /\ pos2[2] >= rect.y2
    /\ pos2[2] <= rect.y2 + 2 * rect.h

RectContains(rect, pos) == RectContains2(rect, <<2 * pos[1], 2 * pos[2]>>)

\* Mutant of ClickToOriginal2: the offset of the rectangle is not taken off.
ClickToOriginalNoOffset(rect, pos2, ow, oh) ==
    << TruncDiv(pos2[1] * ow, 2 * rect.w),
       TruncDiv(pos2[2] * oh, 2 * rect.h) >>

\* handle_click: the original-image pixel of a label position, from the
\* fraction of the rectangle the position lies at; int() truncates.
ClickToOriginal2(rect, pos2, ow, oh) ==
    << TruncDiv((pos2[1] - rect.x2) * ow, 2 * rect.w),
       TruncDiv((pos2[2] - rect.y2) * oh, 2 * rect.h) >>

ClickToOriginal(rect, pos, ow, oh) ==
    ClickToOriginal2(rect, <<2 * pos[1], 2 * pos[2]>>, ow, oh)

(***************************************************************************)
(* update_display                                                          *)
(***************************************************************************)
\* scaled_width, scaled_height of an image w x h at zoom z:
\* int(w * min(label.w / w, label.h / h) * z / 100), and likewise for h.
ScaledSize(w, h, z) ==
    IF label_size.w * h <= label_size.h * w
    THEN [w |-> (w * label_size.w * z) \div (w * 100),
          h |-> (h * label_size.w * z) \div (w * 100)]
    ELSE [w |-> (w * label_size.h * z) \div (h * 100),
          h |-> (h * label_size.h * z) \div (h * 100)]

\* The rectangle update_display stores in the label: the scaled image
\* centred in the label (offsets doubled).
DisplayRect(w, h, z) ==
    LET s == ScaledSize(w, h, z)
    IN  [x2 |-> label_size.w - s.w, y2 |-> label_size.h - s.h,
         w |-> s.w, h |-> s.h]

\* The pixmap position at which update_display paints the vertex p of an
\* image w x h at zoom z: (int(x * scale_factor * zoom_factor), likewise y).
OverlayPoint(w, h, z, p) ==
    IF label_size.w * h <= label_size.h * w
    THEN << (p[1] * label_size.w * z) \div (w * 100),
            (p[2] * label_size.w * z) \div (w * 100) >>
    ELSE << (p[1] * label_size.h * z) \div (h * 100),
            (p[2] * label_size.h * z) \div (h * 100) >>

\* update_display returns at once when no image has been decoded; otherwise
\* it recomputes the rectangle and sets the painted pixmap (a pixmap scaled
\* to an empty size is null).
UpdateDisplay(img, w, h, z) ==
    IF img = None
    THEN /\ image_rect' = image_rect
         /\ pixmap' = pixmap
    ELSE LET r == DisplayRect(w, h, z)
         IN  /\ image_rect' = r
             /\ pixmap' = IF r.w = 0 \/ r.h = 0 THEN "null" ELSE "image"

(***************************************************************************)
(* Annotation store                                                        *)
(***************************************************************************)
HasEntry(ann, key) == \E i \in 1..Len(ann) : ann[i].filename = key

EntryIndex(ann, key) == CHOOSE i \in 1..Len(ann) : ann[i].filename = key

\* Mutant of RecordCentroid: the newest centroid of an image goes first.
RecordCentroidNewestFirst(ann, key, c) ==
    IF HasEntry(ann, key)
    THEN [ann EXCEPT ![EntryIndex(ann, key)].centroids = <<c>> \o @]
    ELSE Append(ann, [filename |-> key, centroids |-> <<c>>])

\* finish_polygon, lines 409-412: create the entry if absent, then append.
RecordCentroid(ann, key, c) ==
    IF HasEntry(ann, key)
    THEN [ann EXCEPT ![EntryIndex(ann, key)].centroids = Append(@, c)]
    ELSE Append(ann, [filename |-> key, centroids |-> <<c>>])

TotalCentroids(ann) ==
    SumTo([i \in 1..Len(ann) |-> Len(ann[i].centroids)], Len(ann))

\* update_marked_count: <<entries with at least one centroid, images>>.
MarkedCount(ann, paths) ==
    << Cardinality({i \in 1..Len(ann) : Len(ann[i].centroids) > 0}),
       Len(paths) >>

(***************************************************************************)
(* calculate_centroid                                                      *)
(***************************************************************************)
\* cv2.moments of a float32 contour (Green's formula over the closed path):
\*   a00 = sum dxy, a10 = sum dxy * (x_prev + x), a01 = sum dxy * (y_prev + y)
\*   with dxy = x_prev * y - x * y_prev, starting from the last point;
\*   m00 = |a00| / 2, m10 = +-a10 / 6, m01 = +-a01 / 6 (sign of a00),
\*   and all moments are 0 when a00 = 0.
PrevPoint(points, i) == IF i = 1 THEN points[Len(points)] ELSE points[i - 1]

Dxy(points, i) ==
    PrevPoint(points, i)[1] * points[i][2] - points[i][1] * PrevPoint(points, i)[2]

A00(points) ==
    SumTo([i \in 1..Len(points) |-> Dxy(points, i)], Len(points))

A10(points) ==
    SumTo([i \in 1..Len(points) |->
              Dxy(points, i) * (PrevPoint(points, i)[1] + points[i][1])],
          Len(points))

A01(points) ==
    SumTo([i \in 1..Len(points) |->
              Dxy(points, i) * (PrevPoint(points, i)[2] + points[i][2])],
          Len(points))

\* (int(m10 / m00), int(m01 / m00)), or (0, 0) when m00 == 0.
calculate_centroid(points) ==
    IF A00(points) = 0
    THEN <<0, 0>>
    ELSE << TruncDiv(A10(points), 3 * A00(points)),
            TruncDiv(A01(points), 3 * A00(points)) >>

(***************************************************************************)
(* Export rows                                                             *)
(***************************************************************************)
CsvHeader == <<"filename", "centroid_x", "centroid_y">>

\* One row (filename, cx, cy) per centroid of one entry, in list order.
EntryRows(entry) ==
    [j \in 1..Len(entry.centroids) |->
        <<entry.filename, entry.centroids[j][1], entry.centroids[j][2]>>]

\* save_centroids, lines 462-465: the header, then the rows of each entry
\* in dict order.
RECURSIVE AnnotationRows(_)
AnnotationRows(ann) ==
    IF ann = <<>> THEN <<>>
    ELSE EntryRows(Head(ann)) \o AnnotationRows(Tail(ann))

ExportRows(ann) == <<CsvHeader>> \o AnnotationRows(ann)

(***************************************************************************)
(* Initial state: AnnotationTool.__init__                                  *)
(***************************************************************************)
\* self.auto_advance is set once and never changed.
auto_advance == TRUE

Init ==
    /\ image_dir = ""
    /\ image_paths = <<>>
    /\ list_model = <<>>
    /\ current_index = 0
    /\ original_image = None
    /\ original_width = 0
    /\ original_height = 0
    /\ annotations = <<>>
    /\ current_polygon = <<>>
    /\ current_centroid = None
    /\ marked_count = 0
    /\ marked_label = <<0, 0>>
    /\ zoom = DefaultZoom
    /\ zoom_slider = DefaultZoom
    /\ image_rect = [x2 |-> 0, y2 |-> 0, w |-> 0, h |-> 0]
    /\ pixmap = "none"
    /\ timers = 0
    /\ crashed = FALSE
    /\ dialog = ""
    /\ written = <<>>
    /\ finished = <<>>
    /\ label_size = LabelSize

(***************************************************************************)
(* load_current_image                                                      *)
(***************************************************************************)
\* The image at idx is in the list and cv2.imread decodes it.
LoadSucceeds(idx, paths) ==
    /\ 0 <= idx
    /\ idx < Len(paths)
    /\ Decodable(paths[idx + 1])

\* load_current_image with current_index = idx and image_paths = paths,
\* but for the label of marked images, which the callers set.  A decode
\* failure warns and returns before anything is reset.
LoadCurrentImage(idx, paths) ==
    IF LoadSucceeds(idx, paths)
    THEN LET path == paths[idx + 1]
             shape == ImageShape(path)
         IN  /\ original_image' = path
             /\ original_width' = shape.w
             /\ original_height' = shape.h
             /\ current_polygon' = <<>>
             /\ current_centroid' = None
             /\ UpdateDisplay(path, shape.w, shape.h, zoom)
             /\ dialog' = ""
    ELSE /\ UNCHANGED <<original_image, original_width, original_height,
                        current_polygon, current_centroid, image_rect, pixmap>>
         /\ dialog' = IF 0 <= idx /\ idx < Len(paths)
                      THEN "ImageDecodeFailure" ELSE ""

\* The label after load_current_image: rewritten only by a successful load.
LabelAfterLoad(idx, paths, ann) ==
    IF LoadSucceeds(idx, paths) THEN MarkedCount(ann, paths) ELSE marked_label

(***************************************************************************)
(* Handlers                                                                *)
(***************************************************************************)
\* open_image_folder with the directory the dialog returned ("" = cancelled).
OpenImageFolder(d) ==
    /\ ~crashed
    /\ written' = <<>>
    /\ UNCHANGED <<zoom, zoom_slider, timers, crashed, label_size>>
    /\ IF d = ""
       THEN /\ dialog' = ""
            /\ UNCHANGED <<image_dir, image_paths, list_model, current_index,
                           original_image, original_width, original_height,
                           annotations, current_polygon, current_centroid,
                           marked_count, marked_label, image_rect, pixmap,
                           finished>>
       ELSE /\ image_dir' = d
            /\ image_paths' = ListDir(d)
            /\ IF ListDir(d) = <<>>
               THEN /\ dialog' = "NoImagesFound"
                    /\ UNCHANGED <<list_model, current_index, original_image,
                                   original_width, original_height,
                                   annotations, current_polygon,
                                   current_centroid, marked_count,
                                   marked_label, image_rect, pixmap,
                                   finished>>
               ELSE /\ list_model' = ListDir(d)
                    /\ current_index' = 0
                    /\ annotations' = <<>>
                    /\ finished' = <<>>
                    /\ marked_count' = 0
                    /\ LoadCurrentImage(0, ListDir(d))
                    /\ marked_label' = MarkedCount(<<>>, ListDir(d))

\* load_selected_image: a click on row `row` of the list view.
LoadSelectedImage(row) ==
    /\ ~crashed
    /\ row < Len(list_model)
    /\ current_index' = row
    /\ LoadCurrentImage(row, image_paths)
    /\ marked_label' = LabelAfterLoad(row, image_paths, annotations)
    /\ written' = <<>>
    /\ UNCHANGED <<image_dir, image_paths, list_model, annotations,
                   marked_count, zoom, zoom_slider, timers, crashed,
                   finished, label_size>>

\* prev_image / next_image: the clamped index.
PrevIndex(idx) == Max(0, idx - 1)

\* Mutant of NextIndex: the upper clamp is forgotten.
NextIndexUnclamped(idx, n) == idx + 1

\* next_image: the index after it, in a list of n images.
NextIndex(idx, n) == Min(n - 1, idx + 1)

\* The body shared by the two navigation methods: move to idx and load.
Navigate(idx) ==
    /\ written' = <<>>
    /\ UNCHANGED <<image_dir, image_paths, list_model, annotations,
                   marked_count, zoom, zoom_slider, crashed, finished, label_size>>
    /\ IF image_paths # <<>>
       THEN /\ current_index' = idx
            /\ LoadCurrentImage(idx, image_paths)
            /\ marked_label' = LabelAfterLoad(idx, image_paths, annotations)
       ELSE /\ dialog' = ""
            /\ UNCHANGED <<current_index, original_image, original_width,
                           original_height, current_polygon, current_centroid,
                           marked_label, image_rect, pixmap>>

PrevImage ==
    /\ ~crashed
    /\ Navigate(PrevIndex(current_index))
    /\ UNCHANGED timers

NextImage ==
    /\ ~crashed
    /\ Navigate(NextIndex(current_index, Len(image_paths)))
    /\ UNCHANGED timers

\* A pending QTimer.singleShot fires: next_image runs.
TimerFire ==
    /\ ~crashed
    /\ timers > 0
    /\ timers' = timers - 1
    /\ Navigate(NextIndex(current_index, Len(image_paths)))

\* mousePressEvent, left button at pos: handle_click and add_polygon_point
\* when a pixmap is shown and the rectangle contains pos; nothing otherwise.
ClickAccepted(pos) == pixmap = "image" /\ RectContains(image_rect, pos)

LeftClick(pos) ==
    /\ ~crashed
    /\ ClickAccepted(pos) => Len(current_polygon) < MaxVertices
    /\ dialog' = ""
    /\ written' = <<>>
    /\ UNCHANGED <<image_dir, image_paths, list_model, current_index,
                   original_image, original_width, original_height,
                   annotations, current_centroid, marked_count, marked_label,
                   zoom, zoom_slider, timers, crashed, finished, label_size>>
    /\ IF ClickAccepted(pos)
       THEN /\ current_polygon' =
                  Append(current_polygon,
                         ClickToOriginal(image_rect, pos,
                                         original_width, original_height))
            /\ UpdateDisplay(original_image, original_width,
                             original_height, zoom)
       ELSE UNCHANGED <<current_polygon, image_rect, pixmap>>

\* finish_polygon has enough vertices to go on.
EnoughVertices(polygon) == Len(polygon) >= MinVertices

\* mousePressEvent, right button: finish_polygon, explored while the store
\* holds fewer than limit centroids.
FinishPolygonWithin(limit) ==
    /\ ~crashed
    /\ written' = <<>>
    /\ UNCHANGED <<image_dir, image_paths, list_model, current_index,
                   original_image, original_width, original_height,
                   zoom, zoom_slider, label_size>>
    /\ IF ~EnoughVertices(current_polygon)
       THEN /\ dialog' = "InsufficientVertices"
            /\ UNCHANGED <<annotations, current_polygon, current_centroid,
                           marked_count, marked_label, image_rect, pixmap,
                           timers, crashed, finished>>
       ELSE IF current_index >= Len(image_paths)
       THEN \* self.image_paths[self.current_index] raises IndexError
            /\ crashed' = TRUE
            /\ dialog' = ""
            /\ UNCHANGED <<annotations, current_polygon, current_centroid,
                           marked_count, marked_label, image_rect, pixmap,
                           timers, finished>>
       ELSE LET filename == Basename(image_paths[current_index + 1])
                centroid == calculate_centroid(current_polygon)
                ann == RecordCentroid(annotations, filename, centroid)
            IN  /\ TotalCentroids(annotations) < limit
                /\ auto_advance => timers < MaxTimers
                /\ current_centroid' = centroid
                /\ annotations' = ann
                /\ finished' = Append(finished, <<filename, centroid>>)
                /\ marked_count' = marked_count + 1
                /\ marked_label' = MarkedCount(ann, image_paths)
                /\ current_polygon' = <<>>
                /\ UpdateDisplay(original_image, original_width,
                                 original_height, zoom)
                /\ timers' = IF auto_advance THEN timers + 1 ELSE timers
                /\ dialog' = ""
                /\ UNCHANGED crashed

FinishPolygon == FinishPolygonWithin(MaxCentroids)

\* Mutant of ClearCurrent: clearing also drops what was recorded for the
\* current image.
ClearCurrentDropsEntry ==
    /\ ~crashed
    /\ current_polygon' = <<>>
    /\ current_centroid' = None
    /\ annotations' =
          IF current_index < Len(image_paths)
          THEN SelectSeq(annotations,
                         LAMBDA e : e.filename #
                                    Basename(image_paths[current_index + 1]))
          ELSE annotations
    /\ UpdateDisplay(original_image, original_width, original_height, zoom)
    /\ dialog' = ""
    /\ written' = <<>>
    /\ UNCHANGED <<image_dir, image_paths, list_model, current_index,
                   original_image, original_width, original_height,
                   marked_count, marked_label, zoom, zoom_slider,
                   timers, crashed, finished, label_size>>

\* clear_current
ClearCurrent ==
    /\ ~crashed
    /\ current_polygon' = <<>>
    /\ current_centroid' = None
    /\ UpdateDisplay(original_image, original_width, original_height, zoom)
    /\ dialog' = ""
    /\ written' = <<>>
    /\ UNCHANGED <<image_dir, image_paths, list_model, current_index,
                   original_image, original_width, original_height,
                   annotations, marked_count, marked_label, zoom, zoom_slider,
                   timers, crashed, finished, label_size>>

\* The zoom levels the model explores: within MaxWheelSteps steps of a
\* slider position.
ZoomExplored(z) ==
    \E v \in SliderValues : Abs(z - v) <= ZoomStep * MaxWheelSteps

\* What every zoom handler leaves alone.
ZoomFrame ==
    /\ dialog' = ""
    /\ written' = <<>>
    /\ UNCHANGED <<image_dir, image_paths, list_model, current_index,
                   original_image, original_width, original_height,
                   annotations, current_polygon, current_centroid,
                   marked_count, marked_label, timers, crashed, finished, label_size>>

\* on_zoom_changed: the user moves the slider to value (valueChanged is
\* emitted only for a new value).
OnZoomChanged(value) ==
    /\ ~crashed
    /\ value # zoom_slider
    /\ zoom_slider' = value
    /\ zoom' = SetZoom(value)
    /\ UpdateDisplay(original_image, original_width, original_height,
                     SetZoom(value))
    /\ ZoomFrame

\* Mutant of AdjustedZoom: the step is applied without clamping.
AdjustedZoomUnclamped(z, zoom_in) ==
    z + (IF zoom_in THEN ZoomStep ELSE -ZoomStep)

\* adjust_zoom: one wheel notch or toolbar step.
AdjustedZoom(z, zoom_in) ==
    Min(MaxZoom, Max(MinZoom, z + (IF zoom_in THEN ZoomStep ELSE -ZoomStep)))

AdjustZoomStep(zoom_in) ==
    /\ ~crashed
    /\ zoom_slider' = AdjustedZoom(zoom, zoom_in)
    /\ zoom' = SetZoom(AdjustedZoom(zoom, zoom_in))
    /\ UpdateDisplay(original_image, original_width, original_height,
                     SetZoom(AdjustedZoom(zoom, zoom_in)))
    /\ ZoomFrame

\* adjust_zoom, explored at the zoom levels of ZoomExplored.
AdjustZoom(zoom_in) ==
    /\ ZoomExplored(AdjustedZoom(zoom, zoom_in))
    /\ AdjustZoomStep(zoom_in)

\* zoom_to_fit
ZoomToFit ==
    /\ ~crashed
    /\ zoom_slider' = DefaultZoom
    /\ zoom' = SetZoom(DefaultZoom)
    /\ UpdateDisplay(original_image, original_width, original_height,
                     SetZoom(DefaultZoom))
    /\ ZoomFrame

\* Mutant of SaveCentroids: a successful export also discards the pending
\* polygon.
SaveCentroidsClearing(outcome, k) ==
    /\ ~crashed
    /\ annotations # <<>>
    /\ outcome = "success"
    /\ k = -1
    /\ dialog' = "ExportSuccess"
    /\ written' = << <<CsvHeader>> \o AnnotationRows(annotations) >>
    /\ current_polygon' = <<>>
    /\ UNCHANGED <<image_dir, image_paths, list_model, current_index,
                   original_image, original_width, original_height,
                   annotations, current_centroid,
                   marked_count, marked_label, zoom, zoom_slider,
                   image_rect, pixmap, timers, crashed, finished, label_size>>

\* save_centroids: refused when the store is empty; otherwise the file
\* dialog is cancelled, or the file is written, or the write raises after
\* k rows (k = -1: open() itself failed and there is no file).
SaveOutcomes == {"cancel", "success", "failure"}

SaveCentroids(outcome, k) ==
    /\ ~crashed
    /\ UNCHANGED <<image_dir, image_paths, list_model, current_index,
                   original_image, original_width, original_height,
                   annotations, current_polygon, current_centroid,
                   marked_count, marked_label, zoom, zoom_slider,
                   image_rect, pixmap, timers, crashed, finished, label_size>>
    /\ IF annotations = <<>>
       THEN /\ outcome = "cancel"
            /\ k = -1
            /\ dialog' = "NoAnnotationsToExport"
            /\ written' = <<>>
       ELSE CASE outcome = "cancel" ->
                   /\ k = -1
                   /\ dialog' = ""
                   /\ written' = <<>>
              [] outcome = "success" ->
                   /\ k = -1
                   /\ dialog' = "ExportSuccess"
                   /\ written' = <<ExportRows(annotations)>>
              [] OTHER ->
                   /\ k < Len(ExportRows(annotations))
                   /\ dialog' = "ExportWriteFailure"
                   /\ written' = IF k = -1 THEN <<>>
                                 ELSE <<SubSeq(ExportRows(annotations), 1, k)>>

(***************************************************************************)
(* Specification                                                           *)
(***************************************************************************)
\* Rows of the list view the user can click (the longest listing has 3).
Rows == 0..2

Next ==
    \/ \E d \in Dirs \cup {""} : OpenImageFolder(d)
    \/ \E row \in Rows : LoadSelectedImage(row)
    \/ PrevImage
    \/ NextImage
    \/ TimerFire
    \/ \E pos \in ClickPoints : LeftClick(pos)
    \/ FinishPolygon
    \/ ClearCurrent
    \/ \E value \in SliderValues : OnZoomChanged(value)
    \/ \E zoom_in \in BOOLEAN : AdjustZoom(zoom_in)
    \/ ZoomToFit
    \/ \E outcome \in SaveOutcomes : \E k \in PartialWrites :
           SaveCentroids(outcome, k)

Spec == Init /\ [][Next]_vars

\* The store specification: one directory, list selection, clicks, finishes
\* up to MaxStoreCentroids recorded centroids, the auto-advance and export.
\* Zooming, clearing and the prev/next buttons are left to Spec.
NextStore ==
    \/ OpenImageFolder("d1")
    \/ \E row \in Rows : LoadSelectedImage(row)
    \/ TimerFire
    \/ \E pos \in ClickPoints : LeftClick(pos)
    \/ FinishPolygonWithin(MaxStoreCentroids)
    \/ \E outcome \in SaveOutcomes : SaveCentroids(outcome, -1)

SpecStore == Init /\ [][NextStore]_vars

\* The label position, doubled, of the painted last vertex: its pixmap
\* position plus the offset of the rectangle in the label.
PaintedAt2 ==
    LET d == OverlayPoint(original_width, original_height, zoom,
                          current_polygon[Len(current_polygon)])
    IN  <<2 * d[1] + image_rect.x2, 2 * d[2] + image_rect.y2>>

\* handle_click at the position where the last vertex is painted: the
\* vertex mapped to the display and back is added to the polygon.
MapVertexBack ==
    /\ ~crashed
    /\ pixmap = "image"
    /\ Len(current_polygon) = 1
    /\ RectContains2(image_rect, PaintedAt2)
    /\ current_polygon' =
          Append(current_polygon,
                 ClickToOriginal2(image_rect, PaintedAt2,
                                  original_width, original_height))
    /\ UpdateDisplay(original_image, original_width, original_height, zoom)
    /\ dialog' = ""
    /\ written' = <<>>
    /\ UNCHANGED <<image_dir, image_paths, list_model, current_index,
                   original_image, original_width, original_height,
                   annotations, current_centroid, marked_count, marked_label,
                   zoom, zoom_slider, timers, crashed, finished, label_size>>

\* The mapping specification: an image of any size up to MaxSide, shown in
\* one of the viewports at one of the zoom levels, with one vertex placed
\* on any of its pixels.
Viewports == { [w |-> 6, h |-> 6], [w |-> 4, h |-> 8] }

MapZooms == {MinZoom, 50, DefaultZoom, 150, 300, MaxZoom}

InitMap ==
    /\ image_dir = "d1"
    /\ image_paths = ListDir("d1")
    /\ list_model = ListDir("d1")
    /\ current_index = 0
    /\ original_image = ListDir("d1")[1]
    /\ original_width \in 1..MaxSide
    /\ original_height \in 1..MaxSide
    /\ annotations = <<>>
    /\ current_polygon \in
          { <<p>> : p \in (0..(original_width - 1))
                           \X (0..(original_height - 1)) }
    /\ current_centroid = None
    /\ marked_count = 0
    /\ marked_label = <<0, 3>>
    /\ zoom \in MapZooms
    /\ zoom_slider = zoom
    /\ label_size \in Viewports
    /\ image_rect = DisplayRect(original_width, original_height, zoom)
    /\ pixmap = IF image_rect.w = 0 \/ image_rect.h = 0
                THEN "null" ELSE "image"
    /\ timers = 0
    /\ crashed = FALSE
    /\ dialog = ""
    /\ written = <<>>
    /\ finished = <<>>

NextMap == MapVertexBack

SpecMap == InitMap /\ [][NextMap]_vars

\* The centroid specification: the first image of d1, taken to be 4 x 3
\* pixels, is displayed with a pending polygon of 3 to MaxCorners vertices,
\* each on any pixel of the image in any order; the user finishes it.
CentroidImage == [w |-> 4, h |-> 3]

Pixels(w, h) == (0..(w - 1)) \X (0..(h - 1))

InitCentroid ==
    /\ image_dir = "d1"
    /\ image_paths = ListDir("d1")
    /\ list_model = ListDir("d1")
    /\ current_index = 0
    /\ original_image = ListDir("d1")[1]
    /\ original_width = CentroidImage.w
    /\ original_height = CentroidImage.h
    /\ annotations = <<>>
    /\ current_polygon \in
          UNION { [1..n -> Pixels(CentroidImage.w, CentroidImage.h)] :
                    n \in MinVertices..MaxCorners }
    /\ current_centroid = None
    /\ marked_count = 0
    /\ marked_label = <<0, 3>>
    /\ zoom = DefaultZoom
    /\ zoom_slider = DefaultZoom
    /\ label_size = LabelSize
    /\ image_rect = DisplayRect(original_width, original_height, zoom)
    /\ pixmap = "image"
    /\ timers = 0
    /\ crashed = FALSE
    /\ dialog = ""
    /\ written = <<>>
    /\ finished = <<>>

NextCentroid == FinishPolygon

SpecCentroid == InitCentroid /\ [][NextCentroid]_vars

\* The zoom specification: the three zoom handlers over the whole range of
\* the slider, with no image and with the first image of d1 displayed.
NextZoom ==
    \/ OpenImageFolder("d1")
    \/ \E value \in SliderRange : OnZoomChanged(value)
    \/ \E zoom_in \in BOOLEAN : AdjustZoomStep(zoom_in)
    \/ ZoomToFit

SpecZoom == Init /\ [][NextZoom]_vars

(***************************************************************************)
(* Properties                                                              *)
(***************************************************************************)
\* A directory was chosen in the file dialog and open_image_folder ran.
OpenedSomeFolder == \E d \in Dirs : OpenImageFolder(d)

\* The same, for a directory that holds at least one image file.
OpenedImageFolder == \E d \in Dirs : ListDir(d) # <<>> /\ OpenImageFolder(d)

\* A manual navigation gesture ran: prev, next or a list selection.
ManualNavigation ==
    \/ PrevImage
    \/ NextImage
    \/ \E row \in Rows : LoadSelectedImage(row)

\* finish_polygon refused: a warning and nothing else.
FinishRejected ==
    /\ dialog' = "InsufficientVertices"
    /\ UNCHANGED <<current_polygon, annotations, current_index, timers>>

\* finish_polygon went through: one more centroid, the pending polygon
\* emptied, no exception.
FinishSucceeded ==
    /\ ~crashed'
    /\ current_polygon' = <<>>
    /\ TotalCentroids(annotations') = TotalCentroids(annotations) + 1

\* C1: a finish gesture with fewer than 3 pending vertices changes nothing
\* (pending polygon, store, index and scheduled timers are as before) and
\* only warns; a finish gesture with 3 pending vertices succeeds.
C1_FinishTooFewThenRetry ==
    [][FinishPolygon =>
          IF Len(current_polygon) < 3 THEN FinishRejected
          ELSE FinishSucceeded]_vars

\* C2: a finish gesture with 3 or more pending vertices appends exactly one
\* centroid to the end of the entry keyed by the base filename of the image
\* at the current index (creating the entry if absent), leaves the other
\* entries unchanged and leaves the pending polygon empty.
C2_FinishAppendsCentroid ==
    [][(FinishPolygon /\ Len(current_polygon) >= 3) =>
          /\ current_index < Len(image_paths)
          /\ current_polygon' = <<>>
          /\ LET key == Basename(image_paths[current_index + 1])
             IN  /\ HasEntry(annotations', key)
                 /\ LET c == calculate_centroid(current_polygon)
                    IN  annotations' =
                          IF HasEntry(annotations, key)
                          THEN [annotations EXCEPT
                                  ![EntryIndex(annotations, key)].centroids =
                                      Append(@, c)]
                          ELSE Append(annotations,
                                      [filename |-> key, centroids |-> <<c>>])
      ]_vars

\* C3: after every operation that changes the current image (prev, next,
\* list selection, auto-advance firing, opening a directory) the pending
\* polygon is empty and the centroid preview is absent, also when the new
\* current image cannot be decoded.  The current image has changed when
\* the index addresses an image afterwards and the index or the list is
\* not what it was.
C3_PendingNeverCarries ==
    [][((ManualNavigation \/ TimerFire \/ OpenedSomeFolder)
          /\ current_index' < Len(image_paths')
          /\ (current_index' # current_index \/ image_paths' # image_paths))
         => (current_polygon' = <<>> /\ current_centroid' = None)]_vars

\* C4: an image that cannot be decoded is un-markable: the store never
\* holds a centroid under its key.
C4_UndecodableUnmarkable ==
    \A i \in 1..Len(annotations) :
        \A d \in Dirs : Decodable(<<d, annotations[i].filename>>)

\* C5: right after open_image_folder completes for a chosen directory the
\* store is empty, the pending polygon is empty and the index is 0,
\* whatever the session was before.  Stated for the directories that hold
\* an image file, where a session starts.
C5_OpenResetsSession ==
    [][OpenedImageFolder =>
          (annotations' = <<>> /\ current_polygon' = <<>>
             /\ current_index' = 0)]_vars

\* The index at which the only recorded centroid was finished: the store's
\* key is the base filename of that image.
FinishIndex ==
    CHOOSE j \in 0..(Len(image_paths) - 1) :
        Basename(image_paths[j + 1]) = annotations[1].filename

\* C6: no double advance.  With one centroid recorded and its auto-advance
\* still pending, the timer moves the index only if the index is still
\* where the polygon was finished: after a manual navigation away from it
\* the stale timer does not advance the index again.
C6_NoDoubleAdvance ==
    [][(TimerFire /\ timers = 1 /\ TotalCentroids(annotations) = 1
          /\ image_paths # <<>> /\ current_index' # current_index)
         => current_index = FinishIndex]_vars

\* The current index addresses an image of the list.
IndexValid == 0 <= current_index /\ current_index < Len(image_paths)

\* prev_image and next_image move by one and stop at the ends.
NavigationClamps ==
    /\ PrevImage => current_index' =
           (IF current_index = 0 THEN 0 ELSE current_index - 1)
    /\ NextImage => current_index' =
           (IF current_index = Len(image_paths) - 1 THEN current_index
            ELSE current_index + 1)

\* C7 as stated: prev at 0 stays at 0, next at the last index stays, any
\* other prev/next moves by exactly one, and the index is a valid position
\* of the image list in every reachable state.
C7_IndexAlwaysValid ==
    [](IndexValid) /\ [][NavigationClamps]_vars

\* C7 as amended: the same, in every state whose image list is not empty.
C7_NavigationClamps ==
    /\ [](image_paths # <<>> => IndexValid)
    /\ [][image_paths # <<>> => NavigationClamps]_vars

\* Witness C7: next_image has reached the last image of a three-image list,
\* where one more next is clamped.
C7_Witness ==
    /\ Len(image_paths) = 3
    /\ current_index = 2
    /\ original_image = image_paths[3]

\* C8: the store is changed only by a successful finish or by opening a
\* directory: adding a vertex, clear_current, a refused finish, prev, next,
\* list selection, the auto-advance firing, zoom changes and export leave
\* every entry as it was.
C8_StoreFrame ==
    [][(\/ \E pos \in ClickPoints : LeftClick(pos)
        \/ ClearCurrent
        \/ (FinishPolygon /\ ~EnoughVertices(current_polygon))
        \/ ManualNavigation
        \/ TimerFire
        \/ \E value \in SliderValues : OnZoomChanged(value)
        \/ \E zoom_in \in BOOLEAN : AdjustZoom(zoom_in)
        \/ ZoomToFit
        \/ \E outcome \in SaveOutcomes : \E k \in PartialWrites :
               SaveCentroids(outcome, k))
         => annotations' = annotations]_vars

\* Witness C8: a centroid is recorded for the first image, the user has
\* since moved on to the last image, zoomed and placed a vertex there.
C8_Witness ==
    /\ Len(image_paths) = 3
    /\ current_index = 2
    /\ HasEntry(annotations, Basename(image_paths[1]))
    /\ current_polygon # <<>>
    /\ current_centroid = None
    /\ timers = 0

\* C9: no handler lets an exception escape.
C9_NoUnhandledError == ~crashed

\* pos lies in [offsetX, offsetX + w) x [offsetY, offsetY + h).
InHalfOpenRect(rect, pos) ==
    /\ 2 * pos[1] >= rect.x2
    /\ 2 * pos[1] < rect.x2 + 2 * rect.w
    /\ 2 * pos[2] >= rect.y2
    /\ 2 * pos[2] < rect.y2 + 2 * rect.h

\* Every pending vertex is a pixel of the decoded image.
VerticesInBounds ==
    \A i \in 1..Len(current_polygon) :
        /\ 0 <= current_polygon[i][1]
        /\ current_polygon[i][1] < original_width
        /\ 0 <= current_polygon[i][2]
        /\ current_polygon[i][2] < original_height

\* C10: a left click appends a vertex only from inside the half-open
\* rendered rectangle, and every pending vertex lies within the image.
C10_ClicksInsideImage ==
    /\ [](VerticesInBounds)
    /\ [][\A pos \in ClickPoints :
             (LeftClick(pos) /\ current_polygon' # current_polygon)
                => InHalfOpenRect(image_rect, pos)]_vars

\* The row export writes for one finish <<filename, <<cx, cy>>>>.
RowOf(e) == <<e[1], e[2][1], e[2][2]>>

\* The rows of a history of finishes, grouped by image in the order each
\* image was first finished and, within an image, in finish order.
RECURSIVE RowsGrouped(_)
RowsGrouped(log) ==
    IF log = <<>> THEN <<>>
    ELSE LET k == Head(log)[1]
             same == SelectSeq(log, LAMBDA e : e[1] = k)
             others == SelectSeq(log, LAMBDA e : e[1] # k)
         IN  [j \in 1..Len(same) |-> RowOf(same[j])] \o RowsGrouped(others)

\* C11: a successful export writes the header row filename, centroid_x,
\* centroid_y followed by exactly one row per recorded centroid, grouped by
\* image in the order the images' entries were created and, within an
\* image, in the order the centroids were completed.
C11_ExportOrder ==
    dialog = "ExportSuccess" =>
        written = << << <<"filename", "centroid_x", "centroid_y">> >>
                     \o RowsGrouped(finished) >>

\* Witness C11: an export after finishing on one image, then on another,
\* then on the first again with a different centroid.
C11_Witness ==
    /\ dialog = "ExportSuccess"
    /\ Len(finished) = 3
    /\ finished[1][1] = finished[3][1]
    /\ finished[2][1] # finished[1][1]
    /\ finished[1][2] # finished[3][2]

\* The images that have an entry in the store.
MarkedImages == {annotations[i].filename : i \in 1..Len(annotations)}

\* C12: the marked count (update_marked_count) is the number of distinct
\* images with at least one recorded centroid: every entry holds at least
\* one centroid, no image has two entries, the label shows that number, and
\* it never exceeds the length of the current image list.
C12_MarkedCount ==
    /\ \A i \in 1..Len(annotations) : Len(annotations[i].centroids) > 0
    /\ MarkedCount(annotations, image_paths)[1] = Cardinality(MarkedImages)
    /\ marked_label[1] = Cardinality(MarkedImages)
    /\ MarkedCount(annotations, image_paths)[1] <= Len(image_paths)

\* Requests set_zoom is evaluated on, beyond the range of the slider.
ZoomRequests == (-MaxZoom)..(2 * MaxZoom)

\* set_zoom stores the request clamped into [10, 500].
SetZoomClamps ==
    /\ SetZoom(1000) = 500
    /\ SetZoom(-5) = 10
    /\ \A v \in ZoomRequests :
          SetZoom(v) = (IF v < 10 THEN 10 ELSE IF v > 500 THEN 500 ELSE v)

\* C13: the zoom percentage is an integer in [10, 500] and equals the
\* slider value in every reachable state; set_zoom clamps any request into
\* the range; adjust_zoom moves by 20 and clamps; zoom_to_fit sets 100.
C13_ZoomRange ==
    /\ [](zoom \in 10..500 /\ zoom_slider = zoom /\ SetZoomClamps)
    /\ [][\A zoom_in \in BOOLEAN : AdjustZoomStep(zoom_in) =>
              zoom' = (IF zoom_in
                       THEN (IF zoom + 20 > 500 THEN 500 ELSE zoom + 20)
                       ELSE (IF zoom - 20 < 10 THEN 10 ELSE zoom - 20))]_vars
    /\ [][ZoomToFit => zoom' = 100]_vars

\* Witness C13: the zoom stands at the upper limit with an image shown,
\* where one more step up is clamped.
C13_Witness ==
    /\ zoom = 500
    /\ zoom_slider = 500
    /\ pixmap = "image"

\* fitScale * zoom / 100 >= 1: the image is shown at its size or larger.
ShownAtSizeOrLarger ==
    IF label_size.w * original_height <= label_size.h * original_width
    THEN label_size.w * zoom >= original_width * 100
    ELSE label_size.h * zoom >= original_height * 100

\* Each coordinate of q is within one pixel of that of p.
WithinOnePixel(p, q) == Abs(q[1] - p[1]) <= 1 /\ Abs(q[2] - p[2]) <= 1

C15_CentroidOfFinish ==
    /\ [](/\ calculate_centroid(<< <<0, 0>>, <<10, 0>>, <<10, 10>>,
                                   <<0, 10>> >>) = <<5, 5>>
          /\ calculate_centroid(<< <<0, 0>>, <<5, 0>>, <<10, 0>> >>)
                = <<0, 0>>)
    /\ [][(FinishPolygon /\ Len(current_polygon) >= 3
             /\ A00(current_polygon) = 0)
           => (FinishSucceeded /\ current_centroid' = <<0, 0>>
                 /\ finished' # <<>>
                 /\ finished'[Len(finished')][2] = <<0, 0>>)]_vars

\* C16: export reads the session only: whatever its outcome (refused on
\* an empty store, cancelled, write failure, success) the store, the
\* pending polygon and the index are as before, and with an empty store
\* no file is written.
C16_ExportReadOnly ==
    [][\A outcome \in SaveOutcomes : \A k \in PartialWrites :
          SaveCentroids(outcome, k) =>
             /\ UNCHANGED <<annotations, current_polygon, current_index>>
             /\ annotations = <<>> =>
                    (written' = <<>> /\ dialog' = "NoAnnotationsToExport")
      ]_vars

\* Witness C16: an export has just failed part-way, with a centroid in
\* the store and vertices pending.
C16_Witness ==
    /\ dialog = "ExportWriteFailure"
    /\ written # <<>>
    /\ annotations # <<>>
    /\ current_polygon # <<>>

\* C17: the auto-advance firing while the index is already the last one
\* is harmless: the index, the store and the vertices placed on that image
\* since the finish are unchanged.
C17_TimerAtLastIndex ==
    [][(TimerFire /\ image_paths # <<>>
          /\ current_index = Len(image_paths) - 1)
         => UNCHANGED <<current_index, annotations, current_polygon>>]_vars

\* C18: the centroid recorded for a polygon of 3 or more vertices that lie
\* inside the image bounds, in any order, is a pixel of the image:
\* 0 <= cx < original_width and 0 <= cy < original_height.
C18_CentroidInImage ==
    [][(FinishPolygon /\ Len(current_polygon) >= 3 /\ VerticesInBounds)
         => /\ current_centroid' # None
            /\ 0 <= current_centroid'[1]
            /\ current_centroid'[1] < original_width
            /\ 0 <= current_centroid'[2]
            /\ current_centroid'[2] < original_height]_vars

====
